---------------------------- MODULE Spec2Model ----------------------------
(***************************************************************************)
(* Model of the time-range specification engine of youtube-best-downloader *)
(* (helpers.py, download_music.py): label sanitising, timecode and split-  *)
(* spec parsing, chapter-to-cut conversion and per-cut ffmpeg extraction.  *)
(*                                                                         *)
(* Python strings are modelled as sequences of one-character strings, so   *)
(* that strip(), split(), "in" and re.sub() are computed character by      *)
(* character.  Python floats are modelled as tagged records                *)
(*   [t |-> "num", v |-> n]   a finite number (n in whole seconds)         *)
(*   [t |-> "nan", v |-> 0]   float("nan")                                 *)
(*   [t |-> "none", v |-> 0]  None                                         *)
(* The output directory is a function from the file names that exist in it *)
(* to their sizes.                                                         *)
(***************************************************************************)
EXTENDS Integers, Sequences, FiniteSets, TLC

VARIABLES
    sl_pc, sl_in, sl_out,                 \* one call of safe_label
    ps_pc, ps_spec, ps_duration, ps_result, \* one call of parse_splits
    ch_pc, ch_info, ch_result,            \* one call of chapters_to_cuts
    pc, fs, cuts, idx, out_path, pre, made, calls, \* one run of ffmpeg_split
    tc_pc, tc_parts, tc_in, tc_out,       \* one call of parse_timecode
    nz_pc, nz_hist, nz_cuts,              \* the label loop of parse_splits
    mn_pc, mn_args, mn_outputs, mn_i, mn_log, \* the split step of main
    dd_pc, dd_dir, dd_before, dd_key_to_files, \* one run of dedupe_downloads
    rc_pc, rc_fs, rc_cuts, rc_path, rc_log, \* two concurrent runs of ffmpeg_split
    vp_pc, vp_args, vp_started, vp_log, vp_exit \* main of ps_best_downloader

slVars == <<sl_pc, sl_in, sl_out>>
psVars == <<ps_pc, ps_spec, ps_duration, ps_result>>
chVars == <<ch_pc, ch_info, ch_result>>
exVars == <<pc, fs, cuts, idx, out_path, pre, made, calls>>
tcVars == <<tc_pc, tc_parts, tc_in, tc_out>>
nzVars == <<nz_pc, nz_hist, nz_cuts>>
mnVars == <<mn_pc, mn_args, mn_outputs, mn_i, mn_log>>
ddVars == <<dd_pc, dd_dir, dd_before, dd_key_to_files>>
rcVars == <<rc_pc, rc_fs, rc_cuts, rc_path, rc_log>>
vpVars == <<vp_pc, vp_args, vp_started, vp_log, vp_exit>>
progVars == <<mnVars, ddVars, rcVars, vpVars>>
vars == <<slVars, psVars, chVars, exVars, tcVars, nzVars, progVars>>

-----------------------------------------------------------------------------
(* Bounds of the model.                                                    *)

MaxLabelLen == 3
MaxTokens == 3
MaxChapters == 2
MaxCuts == 2
MaxListLen == 3
MaxParts == 4
MaxSources == 2
MaxFiles == 3

-----------------------------------------------------------------------------
(* Python values.                                                          *)

Num(n) == [t |-> "num", v |-> n]
NaN == [t |-> "nan", v |-> 0]
None == [t |-> "none", v |-> 0]

\* Python's float comparisons: every comparison with nan is False.
Lt(a, b) == a.t = "num" /\ b.t = "num" /\ a.v < b.v
Le(a, b) == a.t = "num" /\ b.t = "num" /\ a.v <= b.v
Gt(a, b) == Lt(b, a)
Ge(a, b) == Le(b, a)

\* Python's float arithmetic on the modelled values: nan is absorbing.
Add(a, b) == IF a.t = "num" /\ b.t = "num" THEN Num(a.v + b.v) ELSE NaN
Mul(a, k) == IF a.t = "num" THEN Num(a.v * k) ELSE NaN

\* Truthiness of an optional number: None and 0 are falsy, nan is truthy.
Truthy(x) == x.t = "nan" \/ (x.t = "num" /\ x.v # 0)

\* a or b
Or(a, b) == IF Truthy(a) THEN a ELSE b

-----------------------------------------------------------------------------
(* Python string operations, on sequences of characters.                   *)

Whitespace == {" ", "\t"}

RECURSIVE LStrip(_)
LStrip(s) ==
    IF s # <<>> /\ Head(s) \in Whitespace THEN LStrip(Tail(s)) ELSE s

RECURSIVE RStrip(_)
RStrip(s) ==
    IF s # <<>> /\ s[Len(s)] \in Whitespace
    THEN RStrip(SubSeq(s, 1, Len(s) - 1))
    ELSE s

\* s.strip()
Strip(s) == RStrip(LStrip(s))

\* c in s
Contains(s, c) == \E i \in 1..Len(s) : s[i] = c

\* index of the first occurrence of c in s (0 when there is none)
RECURSIVE FindFrom(_, _, _)
FindFrom(s, c, i) ==
    IF i > Len(s) THEN 0
    ELSE IF s[i] = c THEN i
    ELSE FindFrom(s, c, i + 1)

\* s.split(c, 1) for a string s that contains c
SplitFirst(s, c) ==
    LET i == FindFrom(s, c, 1)
    IN  <<SubSeq(s, 1, i - 1), SubSeq(s, i + 1, Len(s))>>

\* s.split(c)
RECURSIVE SplitAll(_, _)
SplitAll(s, c) ==
    IF Contains(s, c)
    THEN <<SplitFirst(s, c)[1]>> \o SplitAll(SplitFirst(s, c)[2], c)
    ELSE <<s>>

LowerChar(c) ==
    CASE c = "E" -> "e"
      [] c = "N" -> "n"
      [] c = "D" -> "d"
      [] c = "A" -> "a"
      [] c = "I" -> "i"
      [] c = "M" -> "m"
      [] c = "T" -> "t"
      [] c = "X" -> "x"
      [] OTHER -> c

\* s.lower()
Lower(s) == [i \in 1..Len(s) |-> LowerChar(s[i])]

-----------------------------------------------------------------------------
(* safe_label                                                              *)

\* the character class [\\/:*?"<>|]
Forbidden == {"\\", "/", ":", "*", "?", "\"", "<", ">", "|"}

part == <<"p", "a", "r", "t">>

\* s without its leading run of Forbidden characters
RECURSIVE DropRun(_)
DropRun(s) ==
    IF s # <<>> /\ Head(s) \in Forbidden THEN DropRun(Tail(s)) ELSE s

\* re.sub(r'[\\/:*?"<>|]', "_", s): the pattern without its "+"
RECURSIVE re_sub_each(_)
re_sub_each(s) ==
    IF s = <<>> THEN <<>>
    ELSE IF Head(s) \in Forbidden THEN <<"_">> \o re_sub_each(Tail(s))
    ELSE <<Head(s)>> \o re_sub_each(Tail(s))

\* re.sub(r'[\\/:*?"<>|]+', "_", s): each leftmost-longest match of the
\* character class, repeated one or more times, becomes one "_"
RECURSIVE re_sub(_)
re_sub(s) ==
    IF s = <<>> THEN <<>>
    ELSE IF Head(s) \in Forbidden THEN <<"_">> \o re_sub(DropRun(Tail(s)))
    ELSE <<Head(s)>> \o re_sub(Tail(s))

\* s.strip() or "part"
StripOrPart(s) == IF Strip(s) = <<>> THEN part ELSE Strip(s)

safe_label(s) == re_sub(StripOrPart(s))

-----------------------------------------------------------------------------
(* parse_timecode                                                          *)

\* a ValueError raised by int(), float() or parse_timecode
Err == [t |-> "err", v |-> 0]

Digits == {"0", "1", "2", "3", "4", "5", "6", "7", "8", "9"}

DigitVal(c) ==
    CASE c = "0" -> 0 [] c = "1" -> 1 [] c = "2" -> 2 [] c = "3" -> 3
      [] c = "4" -> 4 [] c = "5" -> 5 [] c = "6" -> 6 [] c = "7" -> 7
      [] c = "8" -> 8 [] c = "9" -> 9

\* the value of a string of decimal digits
RECURSIVE DecVal(_)
DecVal(s) ==
    IF s = <<>> THEN 0
    ELSE 10 * DecVal(SubSeq(s, 1, Len(s) - 1)) + DigitVal(s[Len(s)])

IsSigned(u) == u # <<>> /\ Head(u) \in {"-", "+"}
Unsigned(u) == IF IsSigned(u) THEN Tail(u) ELSE u
SignOf(u) == IF u # <<>> /\ Head(u) = "-" THEN -1 ELSE 1

\* int(s): surrounding whitespace, an optional sign, decimal digits;
\* anything else raises ValueError
PyInt(s) ==
    LET u == Strip(s)
        body == Unsigned(u)
    IN  IF body # <<>> /\ \A i \in 1..Len(body) : body[i] \in Digits
        THEN Num(SignOf(u) * DecVal(body))
        ELSE Err

\* float(s), for the literals of the modelled alphabet: what int(s) accepts,
\* and "nan" in any letter case with an optional sign
PyFloat(s) ==
    IF Lower(Unsigned(Strip(s))) = <<"n", "a", "n">> THEN NaN ELSE PyInt(s)

\* a + b and a * k with a ValueError in an operand propagating
AddE(a, b) == IF a.t = "err" \/ b.t = "err" THEN Err ELSE Add(a, b)
MulE(a, k) == IF a.t = "err" THEN Err ELSE Mul(a, k)

\* mutant of parse_timecode: a lone number is taken as seconds
parse_timecode_seconds(s) ==
    LET u == Strip(s)
        parts == SplitAll(u, ":")
    IN  IF u = <<>> THEN Err
        ELSE IF Len(parts) = 3
        THEN AddE(AddE(MulE(PyInt(parts[1]), 3600), MulE(PyInt(parts[2]), 60)),
                  PyFloat(parts[3]))
        ELSE IF Len(parts) = 2
        THEN AddE(MulE(PyInt(parts[1]), 60), PyFloat(parts[2]))
        ELSE PyFloat(u)

parse_timecode(s) ==
    LET u == Strip(s)
        parts == SplitAll(u, ":")
    IN  IF u = <<>> THEN Err
        ELSE IF Len(parts) = 3
        THEN AddE(AddE(MulE(PyInt(parts[1]), 3600), MulE(PyInt(parts[2]), 60)),
                  PyFloat(parts[3]))
        ELSE IF Len(parts) = 2
        THEN AddE(MulE(PyInt(parts[1]), 60), PyFloat(parts[2]))
        ELSE MulE(PyFloat(u), 60)

-----------------------------------------------------------------------------
(* parse_splits                                                            *)

\* the spec strings modelled are inline specs (no leading "@")
read_split_spec(spec) == Strip(spec)

Separators == {",", ";", "\n"}

\* s cut at every separator character
RECURSIVE Pieces(_, _)
Pieces(s, cur) ==
    IF s = <<>> THEN <<cur>>
    ELSE IF Head(s) \in Separators THEN <<cur>> \o Pieces(Tail(s), <<>>)
    ELSE Pieces(Tail(s), Append(cur, Head(s)))

NonBlank(t) == Strip(t) # <<>>

\* [t.strip() for t in re.split(r"[,\n;]+", raw) if t.strip()]
\* (the empty pieces between adjacent separators are dropped by the filter)
Tokenize(raw) ==
    LET kept == SelectSeq(Pieces(raw, <<>>), NonBlank)
    IN  [i \in 1..Len(kept) |-> Strip(kept[i])]

Failure(msg, tok, mode) ==
    [ok |-> FALSE, ranges_mode |-> mode, err |-> msg, token |-> tok, cuts |-> <<>>]

Success(cs, mode) ==
    [ok |-> TRUE, ranges_mode |-> mode, err |-> "", token |-> <<>>, cuts |-> cs]

\* zero-padded decimal of k, as in f"{k:02d}"
RECURSIVE DecStr(_)
DecStr(k) ==
    LET d == CHOOSE c \in Digits : DigitVal(c) = k % 10
    IN  IF k < 10 THEN <<d>> ELSE Append(DecStr(k \div 10), d)

Fmt02d(k) == IF k < 10 THEN <<"0">> \o DecStr(k) ELSE DecStr(k)

\* mutant of Normalize: the new name is never stored back into the list
NormalizeNotStored(cs) == cs

\* mutant of Normalize: the number counts only the cuts without a name
NormalizeCountUnnamed(cs) ==
    [i \in 1..Len(cs) |->
        IF cs[i][3] = <<>>
        THEN <<cs[i][1], cs[i][2],
               part \o Fmt02d(Cardinality({j \in 1..i : cs[j][3] = <<>>}))>>
        ELSE cs[i]]

\* mutant of Normalize: every cut is renamed, the test "if not name" left out
NormalizeAll(cs) ==
    [i \in 1..Len(cs) |-> <<cs[i][1], cs[i][2], part \o Fmt02d(i)>>]

\* the loop that gives every cut with an empty name the name partNN
Normalize(cs) ==
    [i \in 1..Len(cs) |->
        IF cs[i][3] = <<>> THEN <<cs[i][1], cs[i][2], part \o Fmt02d(i)>>
        ELSE cs[i]]

\* mutant of EndIsOpen: the word "end" matched without .lower()
EndIsOpenCaseSensitive(end_s) == end_s \in {<<>>, <<"e", "n", "d">>}

\* the end of a range: "" or "end" means the duration
EndIsOpen(end_s) == Lower(end_s) \in {<<>>, <<"e", "n", "d">>}

\* the rejection test of a range token: end <= start
RangeRejected(start, end) == Le(end, start)

\* the body of the ranges loop for token t: a cut or a failure
RangeToken(t, duration) ==
    LET hasEq == Contains(t, "=")
        range_part == IF hasEq THEN SplitFirst(t, "=")[1] ELSE t
        label == IF hasEq THEN SplitFirst(t, "=")[2] ELSE <<>>
        start_s == Strip(SplitFirst(range_part, "-")[1])
        end_s == Strip(SplitFirst(range_part, "-")[2])
        start == parse_timecode(start_s)
        end == IF EndIsOpen(end_s) THEN duration ELSE parse_timecode(end_s)
    IN  IF ~Contains(range_part, "-") THEN Failure("Invalid range", t, TRUE)
        ELSE IF start.t = "err" THEN Failure("timecode", <<>>, TRUE)
        ELSE IF EndIsOpen(end_s) /\ duration = None
        THEN Failure("End not specified and duration unknown", <<>>, TRUE)
        ELSE IF end.t = "err" THEN Failure("timecode", <<>>, TRUE)
        ELSE IF RangeRejected(start, end)
        THEN Failure("End must be > start", t, TRUE)
        ELSE Success(<<<<start, end,
                         IF label # <<>> THEN safe_label(label) ELSE <<>>>>>>,
                     TRUE)

\* for t in tokens: ... cuts.append(...), the first failure ending the call
RECURSIVE RangesLoop(_, _, _)
RangesLoop(tokens, duration, acc) ==
    IF tokens = <<>> THEN Success(acc, TRUE)
    ELSE LET r == RangeToken(Head(tokens), duration)
         IN  IF r.ok THEN RangesLoop(Tail(tokens), duration, acc \o r.cuts)
             ELSE r

\* m inserted into the ascending sequence s
RECURSIVE Insert(_, _)
Insert(m, s) ==
    IF s = <<>> THEN <<m>>
    ELSE IF Le(m, Head(s)) THEN <<m>> \o s
    ELSE <<Head(s)>> \o Insert(m, Tail(s))

\* sorted(s)
RECURSIVE Sorted(_)
Sorted(s) == IF s = <<>> THEN <<>> ELSE Insert(Head(s), Sorted(Tail(s)))

NonNegative(m) == Ge(m, Num(0))

\* mutant of SurvivingMarkers: the markers are filtered but not sorted
SurvivingMarkersUnsorted(parsed) == SelectSeq(parsed, NonNegative)

\* sorted(m for m in markers if m >= 0)
SurvivingMarkers(parsed) == Sorted(SelectSeq(parsed, NonNegative))

\* one cut per adjacent pair of markers
MarkerCuts(markers) ==
    [i \in 1..(Len(markers) - 1) |-> <<markers[i], markers[i + 1], <<>>>>]

\* mutant of TrailingCut: markers[-1] <= duration
TrailingCutLe(markers, duration) ==
    IF Le(markers[Len(markers)], duration)
    THEN <<<<markers[Len(markers)], duration, <<>>>>>>
    ELSE <<>>

\* if markers[-1] < duration: one more cut up to the duration
TrailingCut(markers, duration) ==
    IF Lt(markers[Len(markers)], duration)
    THEN <<<<markers[Len(markers)], duration, <<>>>>>>
    ELSE <<>>

\* mutant of TooFewMarkers: one marker is enough
TooFewMarkersOne(markers) == Len(markers) < 1

\* len(markers) < 2
TooFewMarkers(markers) == Len(markers) < 2

MarkersMode(tokens, duration) ==
    LET parsed == [i \in 1..Len(tokens) |-> parse_timecode(tokens[i])]
        markers == SurvivingMarkers(parsed)
        dur == IF duration = None THEN markers[Len(markers)] ELSE duration
    IN  IF \E i \in 1..Len(parsed) : parsed[i].t = "err"
        THEN Failure("timecode", <<>>, FALSE)
        ELSE IF TooFewMarkers(markers)
        THEN Failure("Need at least two markers", <<>>, FALSE)
        ELSE Success(MarkerCuts(markers) \o TrailingCut(markers, dur), FALSE)

\* mutant of RangesModeOf: all("-" in t for t in tokens)
RangesModeAll(tokens) == \A i \in 1..Len(tokens) : Contains(tokens[i], "-")

\* any("-" in t for t in tokens)
RangesModeOf(tokens) == \E i \in 1..Len(tokens) : Contains(tokens[i], "-")

parse_splits(spec, duration) ==
    LET tokens == Tokenize(read_split_spec(spec))
        r == IF RangesModeOf(tokens) THEN RangesLoop(tokens, duration, <<>>)
             ELSE MarkersMode(tokens, duration)
    IN  IF tokens = <<>> THEN Failure("No split tokens found", <<>>, FALSE)
        ELSE IF r.ok THEN Success(Normalize(r.cuts), r.ranges_mode)
        ELSE r

-----------------------------------------------------------------------------
(* chapters_to_cuts                                                        *)
(* info is [has_chapters |-> whether info["chapters"] is a list,           *)
(* chapters |-> sequence of chapters, duration |-> number or               *)
(* None]; a chapter is [start_time, end_time |-> number or None,           *)
(* title |-> NoTitle or Title(string)].                                    *)

NoTitle == [t |-> "none", s |-> <<>>]
Title(str) == [t |-> "str", s |-> str]

\* ch.get("start_time") or 0.0
ChapterStart(ch) == Or(ch.start_time, Num(0))

\* chapters[i + 1].get("start_time") if i + 1 < len(chapters), else None
\* (i counts from 1 here)
NextStart(chapters, i) ==
    IF i < Len(chapters) THEN chapters[i + 1].start_time ELSE None

\* ch.get("end_time") or next_start or duration or start
ChapterEnd(chapters, i, duration) ==
    Or(Or(Or(chapters[i].end_time, NextStart(chapters, i)), duration),
       ChapterStart(chapters[i]))

\* ch.get("title") or f"part{i+1:02d}"
ChapterTitle(ch, i) ==
    IF ch.title.t = "str" /\ ch.title.s # <<>> THEN ch.title.s
    ELSE part \o Fmt02d(i)

\* mutant of ChapterLabel: the number is the 0-based index, f"{i:02d}"
ChapterLabelZeroBased(ch, i) ==
    Fmt02d(i - 1) \o <<" ", "-", " ">> \o safe_label(ChapterTitle(ch, i))

\* f"{i+1:02d} - {safe_label(title)}"
ChapterLabel(ch, i) ==
    Fmt02d(i) \o <<" ", "-", " ">> \o safe_label(ChapterTitle(ch, i))

\* mutant of ChapterCut: only end < start is dropped
ChapterCutLt(chapters, i, duration) ==
    LET start == ChapterStart(chapters[i])
        end == ChapterEnd(chapters, i, duration)
    IN  IF Lt(end, start) THEN <<>>
        ELSE <<<<start, end, ChapterLabel(chapters[i], i)>>>>

\* the body of the loop for chapter i: no cut (continue) or one cut
ChapterCut(chapters, i, duration) ==
    LET start == ChapterStart(chapters[i])
        end == ChapterEnd(chapters, i, duration)
    IN  IF Le(end, start) THEN <<>>
        ELSE <<<<start, end, ChapterLabel(chapters[i], i)>>>>

\* the cut c inserted into the list s kept ascending by start
RECURSIVE InsertCut(_, _)
InsertCut(c, s) ==
    IF s = <<>> THEN <<c>>
    ELSE IF Le(c[1], Head(s)[1]) THEN <<c>> \o s
    ELSE <<Head(s)>> \o InsertCut(c, Tail(s))

RECURSIVE SortByStart(_)
SortByStart(s) == IF s = <<>> THEN <<>> ELSE InsertCut(Head(s), SortByStart(Tail(s)))

RECURSIVE ChapterLoop(_, _, _)
ChapterLoop(chapters, i, duration) ==
    IF i > Len(chapters) THEN <<>>
    ELSE ChapterCut(chapters, i, duration) \o ChapterLoop(chapters, i + 1, duration)

\* mutant of chapters_to_cuts: the cuts are returned sorted by start
chapters_to_cuts_sorted(info) ==
    LET chapters == IF info.has_chapters THEN info.chapters ELSE <<>>
    IN  IF chapters = <<>> THEN <<>>
        ELSE SortByStart(ChapterLoop(chapters, 1, info.duration))

\* chapters = info.get("chapters") or []
chapters_to_cuts(info) ==
    LET chapters == IF info.has_chapters THEN info.chapters ELSE <<>>
    IN  IF chapters = <<>> THEN <<>>
        ELSE ChapterLoop(chapters, 1, info.duration)

-----------------------------------------------------------------------------
(* ffmpeg_split                                                            *)
(* fs is the output directory: file name -> size, 0 for an empty file.     *)
(* ffmpeg is an external program: an invocation ends with any exit status  *)
(* rc and leaves its output file untouched ("none"), empty ("empty") or    *)
(* with data ("data"); it is run with -y, so it writes over what is there. *)

base_stem == <<"S">>

\* f"{base_stem} - {label}"
StemOnly(label) == base_stem \o <<" ", "-", " ">> \o label

\* f"{base_stem} - {label}.m4a"
FirstCandidate(label) == StemOnly(label) \o <<".", "m", "4", "a">>

\* f"{stem_only} ({suffix}).m4a"
Suffixed(label, suffix) ==
    StemOnly(label) \o <<" ", "(">> \o DecStr(suffix) \o <<")", ".", "m", "4", "a">>

\* mutant of FreePath: "if os.path.exists" in place of "while os.path.exists"
FreePathIf(existing, label, candidate, suffix) ==
    IF candidate \in existing THEN Suffixed(label, suffix) ELSE candidate

\* while os.path.exists(out_path): out_path = ... (suffix); suffix += 1
RECURSIVE FreePath(_, _, _, _)
FreePath(existing, label, candidate, suffix) ==
    IF candidate \in existing
    THEN FreePath(existing, label, Suffixed(label, suffix), suffix + 1)
    ELSE candidate

\* 0.01 s, in hundredths of a second
MinDuration == 1

\* mutant of DurationArg: end - start without the floor of 0.01
DurationArgRaw(cut) == (cut[2].v - cut[1].v) * 100

\* max(0.01, end - start), in hundredths of a second
DurationArg(cut) ==
    LET d == (cut[2].v - cut[1].v) * 100
    IN  IF d > MinDuration THEN d ELSE MinDuration

ExitCodes == {0, 1}
Effects == {"none", "empty", "data"}

\* the directory after an invocation that was given the output file path
AfterTool(dir, path, effect) ==
    IF effect = "none" THEN dir
    ELSE [q \in DOMAIN dir \cup {path} |->
            IF q = path THEN (IF effect = "empty" THEN 0 ELSE 1) ELSE dir[q]]

\* mutant of CopySucceeded: the exit status alone
CopySucceededByStatus(rc, dir, path) == rc = 0

\* not (res.returncode != 0 or not os.path.exists(out_path)
\*      or os.path.getsize(out_path) == 0)
CopySucceeded(rc, dir, path) ==
    ~(rc # 0 \/ path \notin DOMAIN dir \/ dir[path] = 0)

\* the record of one subprocess.run
Invocation(form, rc, dir) ==
    [cut |-> idx, form |-> form, path |-> out_path,
     start |-> cuts[idx][1], t |-> DurationArg(cuts[idx]), rc |-> rc,
     pre |-> pre,
     exists_after |-> out_path \in DOMAIN dir,
     size_after |-> IF out_path \in DOMAIN dir THEN dir[out_path] ELSE 0]

\* lines 33-39: the output path of the next cut
ChoosePath ==
    /\ pc = "choose"
    /\ idx <= Len(cuts)
    /\ out_path' = FreePath(DOMAIN fs, cuts[idx][3], FirstCandidate(cuts[idx][3]), 2)
    /\ pre' = DOMAIN fs
    /\ pc' = "copy"
    /\ UNCHANGED <<fs, cuts, idx, made, calls, slVars, psVars, chVars, tcVars, nzVars, progVars>>

\* lines 41-50, and 62-63 when the copy succeeded
RunCopy ==
    /\ pc = "copy"
    /\ \E rc \in ExitCodes, effect \in Effects :
          /\ fs' = AfterTool(fs, out_path, effect)
          /\ calls' = Append(calls, Invocation("copy", rc, fs'))
          /\ IF CopySucceeded(rc, fs', out_path)
             THEN /\ made' = Append(made, out_path)
                  /\ idx' = idx + 1
                  /\ pc' = "choose"
             ELSE /\ pc' = "reencode"
                  /\ UNCHANGED <<made, idx>>
    /\ UNCHANGED <<cuts, out_path, pre, slVars, psVars, chVars, tcVars, nzVars, progVars>>

\* mutant of RunReencode: a failed re-encode ends the loop
RunReencodeAbort ==
    /\ pc = "reencode"
    /\ \E rc \in ExitCodes, effect \in Effects :
          /\ fs' = AfterTool(fs, out_path, effect)
          /\ calls' = Append(calls, Invocation("reencode", rc, fs'))
          /\ IF rc # 0
             THEN /\ pc' = "done"
                  /\ UNCHANGED <<made, idx>>
             ELSE /\ made' = Append(made, out_path)
                  /\ idx' = idx + 1
                  /\ pc' = "choose"
    /\ UNCHANGED <<cuts, out_path, pre, slVars, psVars, chVars, tcVars, nzVars, progVars>>

\* lines 51-63: the re-encode after a failed copy
RunReencode ==
    /\ pc = "reencode"
    /\ \E rc \in ExitCodes, effect \in Effects :
          /\ fs' = AfterTool(fs, out_path, effect)
          /\ calls' = Append(calls, Invocation("reencode", rc, fs'))
          /\ IF rc # 0
             THEN UNCHANGED made
             ELSE made' = Append(made, out_path)
          /\ idx' = idx + 1
          /\ pc' = "choose"
    /\ UNCHANGED <<cuts, out_path, pre, slVars, psVars, chVars, tcVars, nzVars, progVars>>

\* line 64: return made
Return ==
    /\ pc = "choose"
    /\ idx > Len(cuts)
    /\ pc' = "done"
    /\ UNCHANGED <<fs, cuts, idx, out_path, pre, made, calls, slVars, psVars, chVars, tcVars, nzVars, progVars>>

-----------------------------------------------------------------------------
(* Values the variables of a component hold while that component is not    *)
(* the one being exercised.                                                *)

NoResult == [ok |-> FALSE, ranges_mode |-> FALSE, err |-> "", token |-> <<>>,
             cuts |-> <<>>]

slIdle == sl_pc = "idle" /\ sl_in = <<>> /\ sl_out = <<>>
psIdle == ps_pc = "idle" /\ ps_spec = <<>> /\ ps_duration = None
          /\ ps_result = NoResult
chIdle == ch_pc = "idle"
          /\ ch_info = [has_chapters |-> FALSE, chapters |-> <<>>, duration |-> None]
          /\ ch_result = <<>>
exIdle == pc = "idle" /\ fs = <<>> /\ cuts = <<>> /\ idx = 0
          /\ out_path = <<>> /\ pre = {} /\ made = <<>> /\ calls = <<>>

tcIdle == tc_pc = "idle" /\ tc_parts = <<>> /\ tc_in = <<>> /\ tc_out = None
nzIdle == nz_pc = "idle" /\ nz_hist = <<>> /\ nz_cuts = <<>>
mnIdle == mn_pc = "idle" /\ mn_args = <<>> /\ mn_outputs = <<>> /\ mn_i = 0
          /\ mn_log = <<>>
ddIdle == dd_pc = "idle" /\ dd_dir = <<>> /\ dd_before = <<>>
          /\ dd_key_to_files = <<>>
rcIdle == rc_pc = <<>> /\ rc_fs = <<>> /\ rc_cuts = <<>> /\ rc_path = <<>>
          /\ rc_log = <<>>
vpIdle == vp_pc = "idle" /\ vp_args = <<>> /\ vp_started = FALSE
          /\ vp_log = <<>> /\ vp_exit = -1
progIdle == mnIdle /\ ddIdle /\ rcIdle /\ vpIdle

\* all sequences over S of length 0..n
SeqsUpTo(S, n) == UNION {[1..k -> S] : k \in 0..n}

-----------------------------------------------------------------------------
(* Specification SpecLabel: safe_label applied to every bounded string.    *)

LabelChars == {"a", " ", ":", "/"}

slInit == sl_pc = "call" /\ sl_in \in SeqsUpTo(LabelChars, MaxLabelLen)
          /\ sl_out = <<>>

CallSafeLabel ==
    /\ sl_pc = "call"
    /\ sl_out' = safe_label(sl_in)
    /\ sl_pc' = "done"
    /\ UNCHANGED <<sl_in, psVars, chVars, exVars, tcVars, nzVars, progVars>>

InitLabel == slInit /\ psIdle /\ chIdle /\ exIdle /\ tcIdle /\ nzIdle /\ progIdle
NextLabel == CallSafeLabel
SpecLabel == InitLabel /\ [][NextLabel]_vars

\* the claim's reading of the rule: one "_" for each forbidden character
PerChar(s) == [i \in 1..Len(s) |-> IF s[i] \in Forbidden THEN "_" ELSE s[i]]

\* positions of u that are not a forbidden character preceded by another one
RunHeads(u) ==
    {i \in 1..Len(u) : ~(u[i] \in Forbidden /\ i > 1 /\ u[i - 1] \in Forbidden)}

\* the k-th smallest element of the set of integers S
Nth(S, k) == CHOOSE i \in S : Cardinality({j \in S : j < i}) = k - 1

AdjacentForbidden(u) ==
    \E i \in 1..(Len(u) - 1) : u[i] \in Forbidden /\ u[i + 1] \in Forbidden

\* C2 (as stated): safe_label(s) is the trimmed input (or "part" when that is
\* empty) with every single forbidden character replaced by one "_", so the
\* output is as long as the trimmed input.
C2_PerCharacter ==
    sl_pc = "done" =>
        /\ sl_out = PerChar(StripOrPart(sl_in))
        /\ Len(sl_out) = Len(StripOrPart(sl_in))

\* C2 (amended): safe_label(s) is the trimmed input (or "part" when that is
\* empty) with every maximal run of adjacent forbidden characters replaced by
\* one "_" and all other characters unchanged; the output is as long as the
\* trimmed input exactly when no two forbidden characters are adjacent, and
\* shorter otherwise.
C2_PerRun ==
    sl_pc = "done" =>
        LET u == StripOrPart(sl_in)
            heads == RunHeads(u)
        IN  /\ sl_out = [k \in 1..Cardinality(heads) |-> PerChar(u)[Nth(heads, k)]]
            /\ Len(sl_out) <= Len(u)
            /\ (Len(sl_out) = Len(u)) <=> ~AdjacentForbidden(u)

\* C2 witness: a padded label with two adjacent forbidden characters has been
\* sanitised to a shorter string.
C2_Witness ==
    /\ sl_pc = "done"
    /\ sl_in # Strip(sl_in)
    /\ AdjacentForbidden(Strip(sl_in))
    /\ Len(sl_out) < Len(Strip(sl_in))

-----------------------------------------------------------------------------
(* Specification SpecParse: parse_splits applied to every spec of at most  *)
(* MaxTokens comma-separated pieces of TokenVocab, with and without a      *)
(* known duration.                                                         *)

MarkerVocab ==
    { <<"0">>, <<"1">>, <<"2">>, <<"0", ":", "3", "0">>,
      <<"x">>, <<"n", "a", "n">>, <<>> }

RangeVocab ==
    { <<"0", "-", "1">>, <<"1", "-", "2", "=", "a">>,
      <<"1", "-">>, <<"1", "-", "E", "n", "d">>,
      <<"2", "-", "1">>, <<"1", "-", "1">>,
      <<"1", "=", "a", "-", "b">>, <<"0", "-", "n", "a", "n">>,
      <<"0", "-", "1", "=">> }

TokenVocab == MarkerVocab \cup RangeVocab

Durations == {None, Num(60), Num(180)}

\* ",".join(pieces)
RECURSIVE Join(_)
Join(pieces) ==
    IF pieces = <<>> THEN <<>>
    ELSE IF Len(pieces) = 1 THEN pieces[1]
    ELSE pieces[1] \o <<",">> \o Join(Tail(pieces))

psInit ==
    /\ ps_pc = "call"
    /\ ps_spec \in {Join(p) : p \in SeqsUpTo(TokenVocab, MaxTokens)}
    /\ ps_duration \in Durations
    /\ ps_result = NoResult

CallParseSplits ==
    /\ ps_pc = "call"
    /\ ps_result' = parse_splits(ps_spec, ps_duration)
    /\ ps_pc' = "done"
    /\ UNCHANGED <<ps_spec, ps_duration, slVars, chVars, exVars, tcVars, nzVars, progVars>>

InitParse == psInit /\ slIdle /\ chIdle /\ exIdle /\ tcIdle /\ nzIdle /\ progIdle
NextParse == CallParseSplits
SpecParse == InitParse /\ [][NextParse]_vars

\* the tokens of the spec of the call, and what the claims say about them
psTokens == Tokenize(ps_spec)
psCuts == ps_result.cuts
HasDash(tokens) == \E i \in 1..Len(tokens) : Contains(tokens[i], "-")
RangePartOf(t) == IF Contains(t, "=") THEN SplitFirst(t, "=")[1] ELSE t
Count(seq, x) == Cardinality({i \in 1..Len(seq) : seq[i] = x})
MaxOf(S) == CHOOSE m \in S : \A k \in S : k <= m
MinOf(S) == CHOOSE m \in S : \A k \in S : m <= k

\* C1: in markers mode (no token contains "-"), with or without a known
\* duration, every cut parse_splits returns has end > start, whatever the
\* order of the markers and also when a marker value occurs twice.
C1_MarkersEndAfterStart ==
    (ps_pc = "done" /\ ps_result.ok /\ ~HasDash(psTokens)) =>
        \A i \in 1..Len(psCuts) : Gt(psCuts[i][2], psCuts[i][1])

\* C7: in markers mode with n >= 2 surviving markers parse_splits returns one
\* cut per adjacent pair of the ascending markers (n - 1 cuts), plus one
\* trailing cut from the last marker to known_duration exactly when
\* known_duration is supplied and the last marker is strictly before it;
\* without known_duration there is no trailing cut.
C7_MarkerCuts ==
    ps_pc = "done" =>
        LET parsed == [i \in 1..Len(psTokens) |-> parse_timecode(psTokens[i])]
            surv == {i \in 1..Len(parsed) : parsed[i].t = "num" /\ parsed[i].v >= 0}
            n == Cardinality(surv)
            last == MaxOf({parsed[i].v : i \in surv})
            trailing == ps_duration # None /\ last < ps_duration.v
            marks == [i \in 1..n |-> IF i = 1 THEN psCuts[1][1] ELSE psCuts[i - 1][2]]
        IN  (/\ psTokens # <<>>
             /\ ~HasDash(psTokens)
             /\ \A i \in 1..Len(parsed) : parsed[i].t # "err"
             /\ n >= 2) =>
                /\ ps_result.ok
                /\ Len(psCuts) = (n - 1) + (IF trailing THEN 1 ELSE 0)
                /\ \A i \in 1..(n - 1) :
                      /\ psCuts[i][1] = marks[i]
                      /\ marks[i].v <= marks[i + 1].v
                /\ \A i \in surv :
                      Count(marks, parsed[i])
                          = Cardinality({j \in surv : parsed[j] = parsed[i]})
                /\ trailing => /\ psCuts[n][1] = Num(last)
                               /\ psCuts[n][2] = ps_duration
                /\ ps_duration = None => Len(psCuts) = n - 1

\* C7 witness: three markers given out of order, with a known duration after
\* the last of them, have produced two pair cuts and the trailing cut.
C7_Witness ==
    /\ ps_pc = "done" /\ ps_result.ok /\ ~ps_result.ranges_mode
    /\ Len(psTokens) = 3
    /\ parse_timecode(psTokens[1]).v > parse_timecode(psTokens[2]).v
    /\ ps_duration # None
    /\ Len(psCuts) = 3
    /\ \A i \in 1..3 : Gt(psCuts[i][2], psCuts[i][1])
    /\ psCuts[3][2] = ps_duration

\* C8: in ranges mode every cut parse_splits returns has end > start; a token
\* whose resolved end is <= its start makes the whole call fail with an
\* error naming that token, and no cut list is returned.
C8_RangesEndAfterStart ==
    (ps_pc = "done" /\ HasDash(psTokens)) =>
        /\ ps_result.ok =>
              \A i \in 1..Len(psCuts) : Gt(psCuts[i][2], psCuts[i][1])
        /\ ps_result.err = "End must be > start" =>
              /\ psCuts = <<>>
              /\ \E i \in 1..Len(psTokens) : ps_result.token = psTokens[i]

EndWords == {<<e, n, d>> : e \in {"e", "E"}, n \in {"n", "N"}, d \in {"d", "D"}}

\* the token is a range whose end part is blank or the word "end"
OpenEnded(t) ==
    /\ Contains(RangePartOf(t), "-")
    /\ Strip(SplitFirst(RangePartOf(t), "-")[2]) \in EndWords \cup {<<>>}

StartOf(t) == parse_timecode(SplitFirst(RangePartOf(t), "-")[1])

\* C9: in ranges mode a token whose end part is blank or is the word "end" in
\* any letter case yields a cut that ends at known_duration; when
\* known_duration is absent parse_splits fails and returns no cut list.
C9_OpenEnd ==
    (ps_pc = "done" /\ HasDash(psTokens)) =>
        /\ ps_result.ok =>
              /\ Len(psCuts) = Len(psTokens)
              /\ \A i \in 1..Len(psTokens) :
                    OpenEnded(psTokens[i]) => psCuts[i][2] = ps_duration
        /\ (ps_duration = None /\ \E i \in 1..Len(psTokens) : OpenEnded(psTokens[i]))
              => (~ps_result.ok /\ psCuts = <<>>)
        /\ (/\ ps_duration # None
            /\ \A i \in 1..Len(psTokens) :
                  /\ OpenEnded(psTokens[i])
                  /\ Lt(StartOf(psTokens[i]), ps_duration))
              => ps_result.ok

\* C9 witness: a spec with the blank-end token and the "End" token has been
\* parsed, with a known duration, into two cuts ending at that duration.
C9_Witness ==
    /\ ps_pc = "done" /\ ps_result.ok /\ ps_duration # None
    /\ Len(psTokens) = 2
    /\ Strip(SplitFirst(psTokens[1], "-")[2]) = <<>>
    /\ Strip(SplitFirst(psTokens[2], "-")[2]) = <<"E", "n", "d">>
    /\ psCuts[1][2] = ps_duration /\ psCuts[2][2] = ps_duration

\* the tokens that are no range: no "-" in the part before the first "="
NoRange(tokens) == {i \in 1..Len(tokens) : ~Contains(RangePartOf(tokens[i]), "-")}

\* C10: mode selection is one decision for the whole spec: when any token
\* contains "-" every token is parsed as a range, so a spec that mixes range
\* tokens with a token that has no "-" in its range part fails and returns no
\* cuts; only a spec in which no token contains "-" is parsed in markers mode.
C10_GlobalMode ==
    (ps_pc = "done" /\ psTokens # <<>>) =>
        /\ ps_result.ranges_mode <=> HasDash(psTokens)
        /\ (HasDash(psTokens) /\ NoRange(psTokens) # {}) =>
              /\ ~ps_result.ok /\ psCuts = <<>>
              /\ ps_result.err = "Invalid range" =>
                    ps_result.token = psTokens[MinOf(NoRange(psTokens))]
        /\ (HasDash(psTokens) /\ ps_result.ok) => Len(psCuts) = Len(psTokens)

\* C10 witness: a well-formed range followed by a bare marker has been
\* rejected as an invalid range naming the marker.
C10_Witness ==
    /\ ps_pc = "done" /\ ~ps_result.ok
    /\ Len(psTokens) = 2
    /\ Contains(psTokens[1], "-") /\ ~Contains(psTokens[2], "-")
    /\ ps_result.err = "Invalid range" /\ ps_result.token = psTokens[2]

-----------------------------------------------------------------------------
(* Specification SpecChapters: chapters_to_cuts applied to every chapter   *)
(* list of at most MaxChapters chapters.                                   *)

ChapterTimes == {None, Num(-1), Num(0), Num(1)}
ChapterTitles == {NoTitle, Title(<<>>), Title(<<"a", "/">>)}
ChapterDurations == {None, Num(0), Num(3)}

ChapterVocab ==
    [start_time : ChapterTimes, end_time : ChapterTimes, title : ChapterTitles]

\* info with a "chapters" list, and info where the key is absent or None
ChapterInfos ==
    [has_chapters : {TRUE}, chapters : SeqsUpTo(ChapterVocab, MaxChapters),
     duration : ChapterDurations]
    \cup [has_chapters : {FALSE}, chapters : {<<>>}, duration : ChapterDurations]

chInit ==
    /\ ch_pc = "call"
    /\ ch_info \in ChapterInfos
    /\ ch_result = <<>>

CallChaptersToCuts ==
    /\ ch_pc = "call"
    /\ ch_result' = chapters_to_cuts(ch_info)
    /\ ch_pc' = "done"
    /\ UNCHANGED <<ch_info, slVars, psVars, exVars, tcVars, nzVars, progVars>>

InitChapters == chInit /\ slIdle /\ psIdle /\ exIdle /\ tcIdle /\ nzIdle /\ progIdle
NextChapters == CallChaptersToCuts
SpecChapters == InitChapters /\ [][NextChapters]_vars

\* the end of chapter i as the claim resolves it: by presence, not by value
SuppliedEnd(chapters, i, duration) ==
    IF chapters[i].end_time # None THEN chapters[i].end_time
    ELSE IF i < Len(chapters) /\ chapters[i + 1].start_time # None
    THEN chapters[i + 1].start_time
    ELSE IF duration # None THEN duration
    ELSE ChapterStart(chapters[i])

\* C3: for each chapter the end of the cut is the chapter's own end_time
\* whenever one is supplied (also a supplied 0), else the next chapter's
\* start_time whenever there is one (also 0), else the overall duration when
\* supplied, else the chapter's start; the chapters whose end so resolved is
\* after their start are the cuts returned.
C3_EndByPresence ==
    ch_pc = "done" =>
        LET chs == ch_info.chapters
            kept == {i \in 1..Len(chs) :
                        Gt(SuppliedEnd(chs, i, ch_info.duration), ChapterStart(chs[i]))}
        IN  /\ Len(ch_result) = Cardinality(kept)
            /\ \A k \in 1..Cardinality(kept) :
                  /\ ch_result[k][1] = ChapterStart(chs[Nth(kept, k)])
                  /\ ch_result[k][2] = SuppliedEnd(chs, Nth(kept, k), ch_info.duration)

-----------------------------------------------------------------------------
(* Specification SpecExtract: one sequential run of ffmpeg_split over every *)
(* list of at most MaxCuts cuts, in an output directory that holds any     *)
(* subset of the files of PreExisting.                                     *)

CutLabels == { <<"a">>, <<"a", " ", "(", "2", ")">> }

CutVocab == {<<Num(0), Num(1), l>> : l \in CutLabels}

PreExisting == { FirstCandidate(<<"a">>), Suffixed(<<"a">>, 2) }

exInit ==
    /\ pc = "choose"
    /\ cuts \in SeqsUpTo(CutVocab, MaxCuts)
    /\ fs \in {[q \in S |-> 1] : S \in SUBSET PreExisting}
    /\ idx = 1
    /\ out_path = <<>>
    /\ pre = {}
    /\ made = <<>>
    /\ calls = <<>>

InitExtract == exInit /\ slIdle /\ psIdle /\ chIdle /\ tcIdle /\ nzIdle /\ progIdle
NextExtract == ChoosePath \/ RunCopy \/ RunReencode \/ Return
SpecExtract == InitExtract /\ [][NextExtract]_vars

\* the invocations made for cut k, in order
CallsOf(k) == SelectSeq(calls, LAMBDA c : c.cut = k)

\* cut k is finished: the loop has moved past it
Finished(k) == k < idx

\* the claim's success test of a copy: status 0, output present and non-empty
CopyOk(c) == c.rc = 0 /\ c.exists_after /\ c.size_after # 0

\* C4: for each cut the tool is invoked in copy form exactly once and first,
\* and in re-encode form exactly once if and only if the copy did not (exit 0
\* and leave an output file that exists and is not empty); never more than
\* twice, and never again after a re-encode.
C4_CopyThenReencode ==
    /\ \A i \in 1..(Len(calls) - 1) : calls[i].cut <= calls[i + 1].cut
    /\ \A k \in 1..Len(cuts) :
          LET cs == CallsOf(k)
          IN  /\ Len(cs) <= 2
              /\ Len(cs) >= 1 => cs[1].form = "copy"
              /\ Len(cs) = 2 => (cs[2].form = "reencode" /\ ~CopyOk(cs[1]))
              /\ Finished(k) =>
                    /\ Len(cs) >= 1
                    /\ (Len(cs) = 2) <=> ~CopyOk(cs[1])

\* C4 witness: a copy exited 0 but left an empty output file, and the same
\* cut was then re-encoded.
C4_Witness ==
    \E i \in 1..(Len(calls) - 1) :
        /\ calls[i].form = "copy" /\ calls[i].rc = 0
        /\ calls[i].exists_after /\ calls[i].size_after = 0
        /\ calls[i + 1].form = "reencode" /\ calls[i + 1].cut = calls[i].cut

\* C5: the output path handed to the tool for a cut did not exist when it was
\* chosen: it is "{base} - {label}.m4a" if that is free, else
\* "{base} - {label} (n).m4a" for the smallest n >= 2 that is free; so no file
\* that existed before the cut was processed (from before the run or from an
\* earlier cut) is written.
C5_FreshPath ==
    \A i \in 1..Len(calls) :
        LET c == calls[i]
            label == cuts[c.cut][3]
        IN  /\ c.path \notin c.pre
            /\ \/ c.path = FirstCandidate(label)
               \/ /\ FirstCandidate(label) \in c.pre
                  /\ \E n \in 2..(Cardinality(c.pre) + 2) :
                        /\ c.path = Suffixed(label, n)
                        /\ \A m \in 2..(n - 1) : Suffixed(label, m) \in c.pre

\* C5 witness: the first candidate existed before the run and the "(2)" name
\* was produced by an earlier cut of the run, so the cut was written to "(3)".
C5_Witness ==
    \E i \in 1..Len(calls) :
        LET label == cuts[calls[i].cut][3]
        IN  /\ calls[i].cut = 2
            /\ FirstCandidate(label) \in calls[1].pre
            /\ Suffixed(label, 2) \notin calls[1].pre
            /\ Suffixed(label, 2) = calls[1].path
            /\ calls[i].path = Suffixed(label, 3)

\* cut k produced its file: its copy succeeded or its re-encode exited 0
CutOk(k) ==
    LET cs == CallsOf(k)
    IN  /\ Len(cs) >= 1
        /\ CopyOk(cs[1]) \/ (Len(cs) = 2 /\ cs[2].rc = 0)

\* C6: a cut whose copy and re-encode both fail is left out of the result
\* without an error, every later cut is still attempted, and the list
\* returned is exactly the output paths of the cuts that succeeded, in cut
\* order, so it is no longer than the cut list.
C6_PartialFailure ==
    /\ pc # "done" => ENABLED NextExtract
    /\ pc = "done" =>
          LET good == {k \in 1..Len(cuts) : CutOk(k)}
          IN  /\ \A k \in 1..Len(cuts) : Len(CallsOf(k)) >= 1
              /\ made = [j \in 1..Cardinality(good) |-> CallsOf(Nth(good, j))[1].path]
              /\ Len(made) <= Len(cuts)

\* C6 witness: the run has returned after the first cut failed twice and the
\* second cut succeeded.
C6_Witness ==
    /\ pc = "done" /\ Len(cuts) = 2
    /\ Len(CallsOf(1)) = 2 /\ ~CutOk(1)
    /\ CutOk(2)
    /\ Len(made) = 1

\* the tokens that parse to a marker that survives: a number >= 0
Survivors(tokens) ==
    {i \in 1..Len(tokens) :
        parse_timecode(tokens[i]).t = "num" /\ parse_timecode(tokens[i]).v >= 0}

\* C11: in markers mode, when fewer than two markers survive parsing and the
\* discarding, parse_splits fails and returns no cuts, with or without a known
\* duration; a spec with no tokens at all fails too.
C11_TooFewMarkers ==
    (ps_pc = "done" /\ ~HasDash(psTokens)) =>
        /\ psTokens = <<>> =>
              (~ps_result.ok /\ psCuts = <<>> /\ ps_result.err = "No split tokens found")
        /\ Cardinality(Survivors(psTokens)) < 2 => (~ps_result.ok /\ psCuts = <<>>)
        /\ (/\ Cardinality(Survivors(psTokens)) < 2
            /\ psTokens # <<>>
            /\ \A i \in 1..Len(psTokens) : parse_timecode(psTokens[i]).t # "err")
              => ps_result.err = "Need at least two markers"

\* C11 witness: a single valid marker with a known duration after it has been
\* rejected for want of a second marker.
C11_Witness ==
    /\ ps_pc = "done" /\ ~ps_result.ok
    /\ Len(psTokens) = 1
    /\ Cardinality(Survivors(psTokens)) = 1
    /\ ps_duration # None
    /\ Lt(parse_timecode(psTokens[1]), ps_duration)
    /\ ps_result.err = "Need at least two markers"

-----------------------------------------------------------------------------
(* Specification SpecCuts: the two producers of cut lists, parse_splits    *)
(* and chapters_to_cuts, each called once on every bounded input.          *)

InitCuts == InitParse \/ InitChapters
NextCuts == NextParse \/ NextChapters
SpecCuts == InitCuts /\ [][NextCuts]_vars

\* C12: every cut of a list returned by parse_splits (either mode) or by
\* chapters_to_cuts has a non-empty label, also for range tokens without
\* "=label", range tokens with nothing after "=", and chapters whose title is
\* absent or empty.
C12_LabelsNonEmpty ==
    /\ (ps_pc = "done" /\ ps_result.ok) =>
          \A i \in 1..Len(psCuts) : psCuts[i][3] # <<>>
    /\ ch_pc = "done" =>
          \A i \in 1..Len(ch_result) : ch_result[i][3] # <<>>

\* C12 witness: a range token with nothing after "=" and a range token without
\* "=" have been parsed into two cuts.
C12_Witness ==
    /\ ps_pc = "done" /\ ps_result.ok /\ ps_result.ranges_mode
    /\ Len(psTokens) = 2 /\ Len(psCuts) = 2
    /\ Contains(psTokens[1], "=") /\ SplitFirst(psTokens[1], "=")[2] = <<>>
    /\ ~Contains(psTokens[2], "=")

-----------------------------------------------------------------------------
(* C13, under SpecParse *)

\* the cut list of a successful call as it stands before the naming loop
RawCuts ==
    IF RangesModeOf(psTokens) THEN RangesLoop(psTokens, ps_duration, <<>>).cuts
    ELSE MarkersMode(psTokens, ps_duration).cuts

\* k written with two decimal digits, k < 100
TwoDigits(k) ==
    LET D == <<"0", "1", "2", "3", "4", "5", "6", "7", "8", "9">>
    IN  <<D[(k \div 10) + 1], D[(k % 10) + 1]>>

\* C13: after the naming loop of parse_splits a cut whose label was empty and
\* that sits at 1-based position k has the label "part" followed by k on two
\* digits, k counting every cut of the list; a cut with a non-empty label
\* keeps it; start and end of every cut are unchanged.
C13_PositionalLabel ==
    (ps_pc = "done" /\ ps_result.ok) =>
        /\ Len(psCuts) = Len(RawCuts)
        /\ \A k \in 1..Len(psCuts) :
              /\ psCuts[k][1] = RawCuts[k][1]
              /\ psCuts[k][2] = RawCuts[k][2]
              /\ RawCuts[k][3] = <<>> => psCuts[k][3] = part \o TwoDigits(k)
              /\ RawCuts[k][3] # <<>> => psCuts[k][3] = RawCuts[k][3]

\* C13 witness: the first cut carries a user-supplied label and the second,
\* unlabelled, cut is named part02.
C13_Witness ==
    /\ ps_pc = "done" /\ ps_result.ok
    /\ Len(psCuts) >= 2
    /\ RawCuts[1][3] # <<>> /\ psCuts[1][3] = RawCuts[1][3]
    /\ RawCuts[2][3] = <<>> /\ psCuts[2][3] = <<"p", "a", "r", "t", "0", "2">>

-----------------------------------------------------------------------------
(* Specification SpecNormalize: the naming loop of parse_splits applied    *)
(* twice in a row to a cut list. nz_hist records the list before each      *)
(* application. The lists are the bounded lists over NamedCuts and the     *)
(* lists chapters_to_cuts returns.                                         *)

NamedCuts ==
    {<<Num(0), Num(1), <<>>>>,
     <<Num(0), Num(1), <<"a">>>>,
     <<Num(1), Num(2), <<>>>>,
     <<Num(1), Num(2), <<"p", "a", "r", "t", "0", "1">>>>,
     <<Num(1), Num(2), <<"p", "a", "r", "t", "0", "3">>>>}

ChapterCutLists ==
    {chapters_to_cuts(i) :
        i \in ChapterInfos}

nzInit ==
    /\ nz_pc = "raw"
    /\ nz_cuts \in SeqsUpTo(NamedCuts, MaxListLen) \cup ChapterCutLists
    /\ nz_hist = <<>>

ApplyNormalize ==
    /\ nz_pc \in {"raw", "once"}
    /\ nz_hist' = Append(nz_hist, nz_cuts)
    /\ nz_cuts' = Normalize(nz_cuts)
    /\ nz_pc' = IF nz_pc = "raw" THEN "once" ELSE "twice"
    /\ UNCHANGED <<slVars, psVars, chVars, exVars, tcVars, progVars>>

InitNormalize == nzInit /\ slIdle /\ psIdle /\ chIdle /\ exIdle /\ tcIdle /\ progIdle
NextNormalize == ApplyNormalize
SpecNormalize == InitNormalize /\ [][NextNormalize]_vars

AllNamed(cs) == \A k \in 1..Len(cs) : cs[k][3] # <<>>

\* C14: the naming loop is idempotent: applied to a list it has already
\* normalized, or to a list in which every label is non-empty (the lists of
\* chapters_to_cuts among them), it returns the list unchanged.
C14_Idempotent ==
    /\ nz_pc = "twice" => nz_cuts = nz_hist[2]
    /\ (nz_pc \in {"once", "twice"} /\ AllNamed(nz_hist[1])) => nz_cuts = nz_hist[1]

\* C14 witness: a list mixing named and unnamed cuts has been normalized, and
\* the second application has returned the normalized list as it was.
C14_Witness ==
    /\ nz_pc = "twice"
    /\ \E k \in 1..Len(nz_hist[1]) : nz_hist[1][k][3] = <<>>
    /\ \E k \in 1..Len(nz_hist[1]) : nz_hist[1][k][3] # <<>>
    /\ nz_hist[2] # nz_hist[1]
    /\ nz_cuts = nz_hist[2]

-----------------------------------------------------------------------------
(* Specification SpecTimecode: parse_timecode called once on every token   *)
(* made of up to MaxParts components joined by ":", with or without        *)
(* surrounding whitespace. tc_parts records the components tc_in was       *)
(* built from.                                                             *)

Components ==
    {<<"0">>, <<"2">>, <<"6", "0">>, <<>>, <<"x">>, <<"n", "a", "n">>}

Padding == {<<>>, <<" ">>}

\* ":".join(parts)
RECURSIVE JoinColon(_)
JoinColon(parts) ==
    IF Len(parts) = 1 THEN parts[1]
    ELSE parts[1] \o <<":">> \o JoinColon(Tail(parts))

tcInit ==
    /\ tc_pc = "call"
    /\ tc_parts \in UNION {[1..k -> Components] : k \in 1..MaxParts}
    /\ \E pad \in Padding : tc_in = pad \o JoinColon(tc_parts) \o pad
    /\ tc_out = None

CallParseTimecode ==
    /\ tc_pc = "call"
    /\ tc_out' = parse_timecode(tc_in)
    /\ tc_pc' = "done"
    /\ UNCHANGED <<tc_parts, tc_in, slVars, psVars, chVars, exVars, nzVars, progVars>>

InitTimecode == tcInit /\ slIdle /\ psIdle /\ chIdle /\ exIdle /\ nzIdle /\ progIdle
NextTimecode == CallParseTimecode
SpecTimecode == InitTimecode /\ [][NextTimecode]_vars

\* the components that are non-negative integers, and their values
IsNatural(c) == c \in {<<"0">>, <<"2">>, <<"6", "0">>}
NaturalVal(c) == IF c = <<"0">> THEN 0 ELSE IF c = <<"2">> THEN 2 ELSE 60

\* C15: for non-negative integer components, after trimming surrounding
\* whitespace, parse_timecode returns H*3600 + M*60 + S for "H:M:S",
\* M*60 + S for "M:S" and value*60 (minutes) for a lone value; a component of
\* 60 or more is accepted and added as it is.
C15_TimecodeValue ==
    (tc_pc = "done" /\ \A i \in 1..Len(tc_parts) : IsNatural(tc_parts[i])) =>
        /\ Len(tc_parts) = 3 =>
              tc_out = Num(NaturalVal(tc_parts[1]) * 3600
                           + NaturalVal(tc_parts[2]) * 60
                           + NaturalVal(tc_parts[3]))
        /\ Len(tc_parts) = 2 =>
              tc_out = Num(NaturalVal(tc_parts[1]) * 60 + NaturalVal(tc_parts[2]))
        /\ Len(tc_parts) = 1 => tc_out = Num(NaturalVal(tc_parts[1]) * 60)

\* C15 witness: " 2:60:60 ", padded with whitespace and with minutes and
\* seconds of 60, has been parsed to 2*3600 + 60*60 + 60.
C15_Witness ==
    /\ tc_pc = "done"
    /\ tc_parts = <<<<"2">>, <<"6", "0">>, <<"6", "0">>>>
    /\ Head(tc_in) = " "
    /\ tc_out = Num(10860)

\* C16: parse_timecode fails, and returns no value, for input that is empty
\* after trimming, for a token with a non-numeric or empty component, and for
\* a token of more than three components.
C16_InvalidTimecode ==
    (/\ tc_pc = "done"
     /\ \/ Strip(tc_in) = <<>>
        \/ \E i \in 1..Len(tc_parts) : ~IsNatural(tc_parts[i])
        \/ Len(tc_parts) > 3)
        => tc_out = Err

-----------------------------------------------------------------------------
(* C17, under SpecParse *)

\* a timecode as the grammar has it: one to three ":"-separated components,
\* each a non-empty string of decimal digits
WellFormedTimecode(t) ==
    LET parts == SplitAll(Strip(t), ":")
    IN  /\ Len(parts) \in 1..3
        /\ \A i \in 1..Len(parts) :
              parts[i] # <<>> /\ \A j \in 1..Len(parts[i]) : parts[i][j] \in Digits

\* a range token that is malformed or fails the range check
BadRangeToken(t, duration) ==
    LET range_part == RangePartOf(t)
        start_s == Strip(SplitFirst(range_part, "-")[1])
        end_s == Strip(SplitFirst(range_part, "-")[2])
        open == end_s = <<>> \/ end_s \in EndWords
    IN  \/ ~Contains(range_part, "-")
        \/ ~WellFormedTimecode(start_s)
        \/ open /\ duration = None
        \/ ~open /\ ~WellFormedTimecode(end_s)
        \/ ~Gt(IF open THEN duration ELSE parse_timecode(end_s),
               parse_timecode(start_s))

BadToken(t, tokens, duration) ==
    IF HasDash(tokens) THEN BadRangeToken(t, duration) ELSE ~WellFormedTimecode(t)

\* C17: parse_splits is all-or-nothing: if any token, at any position, is an
\* invalid timecode or fails a range check, the call fails and returns no cut
\* list; an invalid token is never skipped or replaced by a default.
C17_AllOrNothing ==
    (/\ ps_pc = "done"
     /\ \E i \in 1..Len(psTokens) : BadToken(psTokens[i], psTokens, ps_duration))
        => (~ps_result.ok /\ psCuts = <<>>)

-----------------------------------------------------------------------------
(* C18, C19, C20, under SpecChapters *)

chChapters == ch_info.chapters

\* the chapters whose end, as chapters_to_cuts resolves it, is after the start
Converted ==
    {i \in 1..Len(chChapters) :
        Gt(ChapterEnd(chChapters, i, ch_info.duration), ChapterStart(chChapters[i]))}

\* C18: every cut returned by chapters_to_cuts has end > start: a chapter
\* whose resolved end is less than or equal to its start produces no cut, and
\* the other chapters are still converted.
C18_ChapterEndAfterStart ==
    ch_pc = "done" =>
        /\ \A k \in 1..Len(ch_result) : Gt(ch_result[k][2], ch_result[k][1])
        /\ Len(ch_result) = Cardinality(Converted)
        /\ \A k \in 1..Cardinality(Converted) :
              LET i == Nth(Converted, k)
              IN  /\ ch_result[k][1] = ChapterStart(chChapters[i])
                  /\ ch_result[k][2] = ChapterEnd(chChapters, i, ch_info.duration)
                  /\ SubSeq(ch_result[k][3], 1, 2) = TwoDigits(i)

\* C18 witness: the first of two chapters ends where it starts and is
\* dropped, the second has been converted.
C18_Witness ==
    /\ ch_pc = "done"
    /\ Len(chChapters) = 2
    /\ chChapters[1].end_time = chChapters[1].start_time
    /\ chChapters[1].end_time \notin {None, Num(0)}
    /\ Len(ch_result) = 1
    /\ SubSeq(ch_result[1][3], 1, 2) = <<"0", "2">>

\* chapter lists with strictly increasing start_times, no end_time, and a
\* duration after the last start_time
Chained ==
    /\ chChapters # <<>>
    /\ \A i \in 1..Len(chChapters) :
          chChapters[i].end_time = None /\ chChapters[i].start_time # None
    /\ \A i \in 1..(Len(chChapters) - 1) :
          Lt(chChapters[i].start_time, chChapters[i + 1].start_time)
    /\ ch_info.duration # None
    /\ Gt(ch_info.duration, chChapters[Len(chChapters)].start_time)

\* C19: for n chapters with strictly increasing start_times, no end_time and
\* a duration greater than the last start_time, chapters_to_cuts returns n
\* cuts; cut i starts at chapter i's start_time and ends at chapter i+1's
\* start_time, the last ends at duration; consecutive cuts are contiguous and
\* no two cuts overlap.
C19_Chaining ==
    (ch_pc = "done" /\ Chained) =>
        /\ Len(ch_result) = Len(chChapters)
        /\ \A i \in 1..Len(ch_result) :
              /\ ch_result[i][1] = chChapters[i].start_time
              /\ ch_result[i][2] = IF i < Len(chChapters)
                                   THEN chChapters[i + 1].start_time
                                   ELSE ch_info.duration
        /\ \A i \in 1..(Len(ch_result) - 1) : ch_result[i][2] = ch_result[i + 1][1]
        /\ \A i, j \in 1..Len(ch_result) :
              i < j => Le(ch_result[i][2], ch_result[j][1])

\* the chapter a returned cut was made from, read off the label's number
ChapterOf(cut) ==
    CHOOSE i \in 1..Len(chChapters) : SubSeq(cut[3], 1, 2) = TwoDigits(i)

\* C20: chapters_to_cuts never fails for records with numeric or absent
\* start_time/end_time and any or absent duration (what it hands to float()
\* is a number for every chapter, never None): it returns at most one cut
\* per chapter, in the order of the chapters (no sorting), and the empty list
\* when the chapter list is absent or empty.
C20_NeverFails ==
    /\ \A i \in 1..Len(chChapters) :
          /\ ChapterStart(chChapters[i]).t = "num"
          /\ ChapterEnd(chChapters, i, ch_info.duration).t = "num"
    /\ ch_pc = "done" =>
          /\ Len(ch_result) <= Len(chChapters)
          /\ \A k \in 1..Len(ch_result) :
                /\ \E i \in 1..Len(chChapters) :
                      SubSeq(ch_result[k][3], 1, 2) = TwoDigits(i)
                /\ ch_result[k][1] = ChapterStart(chChapters[ChapterOf(ch_result[k])])
          /\ \A k, l \in 1..Len(ch_result) :
                k < l => ChapterOf(ch_result[k]) < ChapterOf(ch_result[l])
          /\ (~ch_info.has_chapters \/ chChapters = <<>>) => ch_result = <<>>

\* C20 witness: two chapters given in descending order of start have both
\* been converted, and the cuts are in the order of the chapters.
C20_Witness ==
    /\ ch_pc = "done"
    /\ Len(chChapters) = 2 /\ Len(ch_result) = 2
    /\ Gt(ch_result[1][1], ch_result[2][1])
    /\ ChapterOf(ch_result[1]) = 1 /\ ChapterOf(ch_result[2]) = 2

-----------------------------------------------------------------------------
(* C21, under SpecCuts *)

\* C21: every cut returned by parse_splits (either mode) or by
\* chapters_to_cuts has start >= 0: a negative time value never becomes a cut
\* boundary, whatever the spec text or the chapter metadata contains.
C21_StartNonNegative ==
    /\ (ps_pc = "done" /\ ps_result.ok) =>
          \A i \in 1..Len(psCuts) : Ge(psCuts[i][1], Num(0))
    /\ ch_pc = "done" =>
          \A i \in 1..Len(ch_result) : Ge(ch_result[i][1], Num(0))

-----------------------------------------------------------------------------
(* dedupe_downloads.py.  dd_dir is the target directory: entry name ->     *)
(* [mtime, is_file]; dd_before is the directory as the run found it;       *)
(* dd_key_to_files is the dict of the scan, as the sequence of its items   *)
(* in insertion order, each item [key, files] with files a sequence of     *)
(* <<name, mtime>>.  Every os.remove succeeds.                             *)

\* the characters of [A-Za-z0-9] in the alphabet of the modelled names
Alnum ==
    {"T", "t", "I", "i", "D", "d", "X", "x", "M", "m", "A", "a",
     "0", "1", "2", "4"}

\* [A-Za-z0-9_-]
IdChars == Alnum \cup {"_", "-"}

MinIdLen == 8

AllIn(s, S) == \A i \in 1..Len(s) : s[i] \in S

\* index of the last occurrence of c in s (0 when there is none)
LastIndex(s, c) ==
    IF Contains(s, c) THEN CHOOSE i \in 1..Len(s) :
                              s[i] = c /\ \A j \in (i + 1)..Len(s) : s[j] # c
    ELSE 0

\* YOUTUBE_NAMING_RE matched with " [" at position p: the id runs to the
\* first "]", the extension is what follows the last "."
MatchAt(name, p) ==
    LET q == FindFrom(name, "]", p + 2)
        d == LastIndex(name, ".")
    IN  /\ p >= 2 /\ p + 1 <= Len(name)
        /\ name[p] = " " /\ name[p + 1] = "["
        /\ q > 0
        /\ q - (p + 2) >= MinIdLen
        /\ AllIn(SubSeq(name, p + 2, q - 1), IdChars)
        /\ d > q /\ d < Len(name)
        /\ AllIn(SubSeq(name, d + 1, Len(name)), Alnum)

\* os.path.splitext(name): the extension starts at the last ".", unless
\* that is the first character
SplitExt(name) ==
    LET d == LastIndex(name, ".")
    IN  IF d > 1 THEN <<SubSeq(name, 1, d - 1), SubSeq(name, d, Len(name))>>
        ELSE <<name, <<>>>>

\* re.sub(r"\s*\(\d+\)$", "", stem)
DropCopySuffix(stem) ==
    LET o == LastIndex(stem, "(")
    IN  IF /\ stem # <<>> /\ stem[Len(stem)] = ")"
           /\ o > 0 /\ o + 1 < Len(stem)
           /\ AllIn(SubSeq(stem, o + 1, Len(stem) - 1), Digits)
        THEN RStrip(SubSeq(stem, 1, o - 1))
        ELSE stem

\* re.sub(r"\s+", " ", stem)
RECURSIVE CollapseSpaces(_)
CollapseSpaces(s) ==
    IF s = <<>> THEN <<>>
    ELSE IF Head(s) \in Whitespace THEN <<" ">> \o CollapseSpaces(LStrip(s))
    ELSE <<Head(s)>> \o CollapseSpaces(Tail(s))

normalize_copy_suffix(stem) == Lower(Strip(CollapseSpaces(DropCopySuffix(stem))))

RECURSIVE LStripDots(_)
LStripDots(s) == IF s # <<>> /\ Head(s) = "." THEN LStripDots(Tail(s)) ELSE s

build_key(name) ==
    LET ps == {p \in 1..Len(name) : MatchAt(name, p)}
        p == CHOOSE x \in ps : \A y \in ps : x <= y
        q == FindFrom(name, "]", p + 2)
        d == LastIndex(name, ".")
    IN  IF ps # {}
        THEN <<Lower(SubSeq(name, p + 2, q - 1)),
               Lower(Strip(SubSeq(name, q + 1, d - 1))),
               Lower(SubSeq(name, d + 1, Len(name)))>>
        ELSE <<<<"n", "o", "i", "d">>,
               normalize_copy_suffix(SplitExt(name)[1]),
               Lower(LStripDots(SplitExt(name)[2]))>>

\* key_to_files.setdefault(key, []).append((entry.path, mtime))
AddFile(k2f, key, file) ==
    IF \E i \in 1..Len(k2f) : k2f[i].key = key
    THEN [i \in 1..Len(k2f) |->
             IF k2f[i].key = key
             THEN [key |-> key, files |-> Append(k2f[i].files, file)]
             ELSE k2f[i]]
    ELSE Append(k2f, [key |-> key, files |-> <<file>>])

\* the first loop over the entries in the order the scan yields them
RECURSIVE ScanLoop(_, _, _)
ScanLoop(dir, order, k2f) ==
    IF order = <<>> THEN k2f
    ELSE LET name == Head(order)
         IN  IF ~dir[name].is_file THEN ScanLoop(dir, Tail(order), k2f)
             ELSE ScanLoop(dir, Tail(order),
                           AddFile(k2f, build_key(name), <<name, dir[name].mtime>>))

\* f inserted into the list s sorted by mtime, after the files of equal mtime
RECURSIVE InsertByMtime(_, _)
InsertByMtime(f, s) ==
    IF s = <<>> THEN <<f>>
    ELSE IF f[2] < Head(s)[2] THEN <<f>> \o s
    ELSE <<Head(s)>> \o InsertByMtime(f, Tail(s))

RECURSIVE SortFold(_, _)
SortFold(files, acc) ==
    IF files = <<>> THEN acc
    ELSE SortFold(Tail(files), InsertByMtime(Head(files), acc))

\* mutant of SortByMtime: sorted with reverse=True
SortByMtimeReversed(files) ==
    LET s == SortFold(files, <<>>)
    IN  [i \in 1..Len(s) |-> s[Len(s) + 1 - i]]

\* files.sort(key=lambda x: x[1]): ascending and stable
SortByMtime(files) == SortFold(files, <<>>)

\* all orders in which a scan can yield the entries of S
Orders(S) ==
    {o \in [1..Cardinality(S) -> S] : \A i, j \in 1..Cardinality(S) : o[i] = o[j] => i = j}

\* lines 62-74: os.scandir and the first loop
Scan ==
    /\ dd_pc = "scan"
    /\ \E order \in Orders(DOMAIN dd_dir) :
          dd_key_to_files' = ScanLoop(dd_dir, order, <<>>)
    /\ dd_pc' = "keys"
    /\ UNCHANGED <<dd_dir, dd_before, slVars, psVars, chVars, exVars, tcVars,
                   nzVars, mnVars, rcVars, vpVars>>

\* lines 78-96: one iteration of "for key, files in key_to_files.items()"
DedupeKey ==
    /\ dd_pc = "keys"
    /\ dd_key_to_files # <<>>
    /\ LET files == Head(dd_key_to_files).files
           sorted == SortByMtime(files)
           to_delete == {sorted[i][1] : i \in 1..(Len(sorted) - 1)}
       IN  IF Len(files) = 1 THEN dd_dir' = dd_dir
           ELSE dd_dir' = [n \in DOMAIN dd_dir \ to_delete |-> dd_dir[n]]
    /\ dd_key_to_files' = Tail(dd_key_to_files)
    /\ UNCHANGED <<dd_pc, dd_before, slVars, psVars, chVars, exVars, tcVars,
                   nzVars, mnVars, rcVars, vpVars>>

\* lines 98-99: return 0
ReturnDedupe ==
    /\ dd_pc = "keys"
    /\ dd_key_to_files = <<>>
    /\ dd_pc' = "done"
    /\ UNCHANGED <<dd_dir, dd_before, dd_key_to_files, slVars, psVars, chVars,
                   exVars, tcVars, nzVars, mnVars, rcVars, vpVars>>

-----------------------------------------------------------------------------
(* Two runs of ffmpeg_split, each with one cut, executing concurrently     *)
(* against the same output directory rc_fs with the same base name.  Each  *)
(* run is the sequence of steps of ffmpeg_split: the existence check that  *)
(* chooses the path, the copy, the re-encode; the steps of the two runs    *)
(* interleave.  rc_log records every invocation: whether its output path   *)
(* existed already and whether it wrote the file.                          *)

Runs == {1, 2}

Write(p, form, rc, effect) ==
    [run |-> p, form |-> form, path |-> rc_path[p], rc |-> rc,
     existed |-> rc_path[p] \in DOMAIN rc_fs, wrote |-> effect # "none",
     data |-> effect = "data"]

\* mutant of RaceChoosePath: the path is created in the same step that finds
\* it free (an exclusive create)
RaceChoosePathClaim(p) ==
    /\ rc_pc[p] = "choose"
    /\ LET l == rc_cuts[p][3]
           path == FreePath(DOMAIN rc_fs, l, FirstCandidate(l), 2)
       IN  /\ rc_path' = [rc_path EXCEPT ![p] = path]
           /\ rc_fs' = AfterTool(rc_fs, path, "empty")
    /\ rc_pc' = [rc_pc EXCEPT ![p] = "copy"]
    /\ UNCHANGED <<rc_cuts, rc_log, slVars, psVars, chVars, exVars, tcVars,
                   nzVars, mnVars, ddVars, vpVars>>

\* download_music.py:33-39 in run p
RaceChoosePath(p) ==
    /\ rc_pc[p] = "choose"
    /\ LET l == rc_cuts[p][3]
       IN  rc_path' = [rc_path EXCEPT ![p] = FreePath(DOMAIN rc_fs, l, FirstCandidate(l), 2)]
    /\ rc_pc' = [rc_pc EXCEPT ![p] = "copy"]
    /\ UNCHANGED <<rc_fs, rc_cuts, rc_log, slVars, psVars, chVars, exVars,
                   tcVars, nzVars, mnVars, ddVars, vpVars>>

\* download_music.py:41-50 in run p
RaceRunCopy(p) ==
    /\ rc_pc[p] = "copy"
    /\ \E rc \in ExitCodes, effect \in Effects :
          /\ rc_fs' = AfterTool(rc_fs, rc_path[p], effect)
          /\ rc_log' = Append(rc_log, Write(p, "copy", rc, effect))
          /\ rc_pc' = [rc_pc EXCEPT ![p] =
                          IF CopySucceeded(rc, rc_fs', rc_path[p]) THEN "done"
                          ELSE "reencode"]
    /\ UNCHANGED <<rc_cuts, rc_path, slVars, psVars, chVars, exVars, tcVars,
                   nzVars, mnVars, ddVars, vpVars>>

\* download_music.py:51-64 in run p
RaceRunReencode(p) ==
    /\ rc_pc[p] = "reencode"
    /\ \E rc \in ExitCodes, effect \in Effects :
          /\ rc_fs' = AfterTool(rc_fs, rc_path[p], effect)
          /\ rc_log' = Append(rc_log, Write(p, "reencode", rc, effect))
    /\ rc_pc' = [rc_pc EXCEPT ![p] = "done"]
    /\ UNCHANGED <<rc_cuts, rc_path, slVars, psVars, chVars, exVars, tcVars,
                   nzVars, mnVars, ddVars, vpVars>>

-----------------------------------------------------------------------------
(* The split step of main (yt_best_downloader.py:457-493), in --music      *)
(* mode.  mn_outputs is the list of downloaded sources; a source is        *)
(* [id |-> whether info has an id, audio |-> whether an audio file of the  *)
(* source is found, has_chapters, chapters, duration].  mn_args is         *)
(* [split |-> NoSplit or SplitArg(string), split_from_chapters |-> flag].  *)
(* mn_log records, per source, the calls made and the messages printed;    *)
(* ffmpeg_split is recorded as one event with the cut list it is given.    *)

NoSplit == [t |-> "none", s |-> <<>>]
SplitArg(str) == [t |-> "str", s |-> str]

\* the truth value of args.split: None and "" are false
SplitGiven(a) == a.split.t = "str" /\ a.split.s # <<>>

Event(i, ev, cs) == [src |-> i, ev |-> ev, cuts |-> cs]

\* lines 465-474: the cut list of one source and what the step records
CutsFromSpec(r, i) ==
    IF r.ok THEN [cuts |-> r.cuts, log |-> <<Event(i, "parse_splits", <<>>)>>]
    ELSE [cuts |-> <<>>,
          log |-> <<Event(i, "parse_splits", <<>>), Event(i, "ERR", <<>>)>>]

CutsFromChapters(cs, i) ==
    [cuts |-> cs,
     log |-> <<Event(i, "chapters_to_cuts", <<>>)>>
             \o (IF cs = <<>> THEN <<Event(i, "WARN", <<>>)>> ELSE <<>>)]

SplitCuts(a, info, i) ==
    IF SplitGiven(a) THEN CutsFromSpec(parse_splits(a.split.s, info.duration), i)
    ELSE IF a.split_from_chapters THEN CutsFromChapters(chapters_to_cuts(info), i)
    ELSE [cuts |-> <<>>, log |-> <<>>]

\* lines 476-489: nothing to do, no audio file, or ffmpeg_split
AfterCuts(info, i, cs) ==
    IF cs = <<>> THEN <<>>
    ELSE IF ~info.audio THEN <<Event(i, "WARN", <<>>)>>
    ELSE <<Event(i, "ffmpeg_split", cs)>>

\* mutant of ProcessSource: a spec that fails to parse ends the run
ProcessSourceAbort ==
    /\ mn_pc = "loop"
    /\ mn_i <= Len(mn_outputs)
    /\ LET info == mn_outputs[mn_i]
       IN  \E sc \in {SplitCuts(mn_args, info, mn_i)} :
              IF ~info.id
              THEN mn_log' = mn_log /\ mn_pc' = mn_pc
              ELSE /\ mn_log' = mn_log \o sc.log \o AfterCuts(info, mn_i, sc.cuts)
                   /\ mn_pc' = IF SplitGiven(mn_args) /\ sc.cuts = <<>> THEN "done"
                               ELSE mn_pc
    /\ mn_i' = mn_i + 1
    /\ UNCHANGED <<mn_args, mn_outputs, slVars, psVars, chVars, exVars, tcVars,
                   nzVars, ddVars, rcVars, vpVars>>

\* one iteration of "for info in outputs" (lines 458-493)
ProcessSource ==
    /\ mn_pc = "loop"
    /\ mn_i <= Len(mn_outputs)
    /\ LET info == mn_outputs[mn_i]
       IN  \E sc \in {SplitCuts(mn_args, info, mn_i)} :
              IF ~info.id
              THEN mn_log' = mn_log
              ELSE mn_log' = mn_log \o sc.log \o AfterCuts(info, mn_i, sc.cuts)
    /\ mn_i' = mn_i + 1
    /\ UNCHANGED <<mn_pc, mn_args, mn_outputs, slVars, psVars, chVars, exVars,
                   tcVars, nzVars, ddVars, rcVars, vpVars>>

\* lines 495-496: sys.exit(0) after the last source
FinishMain ==
    /\ mn_pc = "loop"
    /\ mn_i > Len(mn_outputs)
    /\ mn_pc' = "done"
    /\ UNCHANGED <<mn_args, mn_outputs, mn_i, mn_log, slVars, psVars, chVars,
                   exVars, tcVars, nzVars, ddVars, rcVars, vpVars>>

-----------------------------------------------------------------------------
(* Specification SpecMain: the split step over every list of at most       *)
(* MaxSources sources, for every --split / --split-from-chapters setting.  *)

SplitArgs ==
    {NoSplit, SplitArg(<<>>), SplitArg(<<"0", ",", "1">>), SplitArg(<<"1", "-">>),
     SplitArg(<<"x">>)}

SourceVocab ==
    [id : BOOLEAN, audio : BOOLEAN, has_chapters : {TRUE},
     chapters : {<<>>, <<[start_time |-> Num(0), end_time |-> Num(1),
                          title |-> NoTitle]>>},
     duration : {None, Num(120)}]

mnInit ==
    /\ mn_pc = "loop"
    /\ mn_args \in [split : SplitArgs, split_from_chapters : BOOLEAN]
    /\ mn_outputs \in SeqsUpTo(SourceVocab, MaxSources)
    /\ mn_i = 1
    /\ mn_log = <<>>

InitMain == mnInit /\ slIdle /\ psIdle /\ chIdle /\ exIdle /\ tcIdle /\ nzIdle
            /\ ddIdle /\ rcIdle /\ vpIdle
NextMain == ProcessSource \/ FinishMain
SpecMain == InitMain /\ [][NextMain]_vars

Logged(i, ev) == \E k \in 1..Len(mn_log) : mn_log[k].src = i /\ mn_log[k].ev = ev

\* the sources for which the supplied spec does not parse
ParseFails(i) == ~parse_splits(mn_args.split.s, mn_outputs[i].duration).ok

-----------------------------------------------------------------------------
(* Specification SpecDedupe: one run of dedupe_downloads over every        *)
(* directory of at most MaxFiles entries named from FileNames, the scan    *)
(* yielding the entries in any order.                                      *)

\* "T [IDIDIDID].m4a", "t [ididIDID].M4A", "T [IDIDIDID] - 01.m4a", "x.m4a",
\* "X (2).m4a", "T [ID].m4a"
FileNames ==
    {<<"T", " ", "[", "I", "D", "I", "D", "I", "D", "I", "D", "]", ".", "m", "4", "a">>,
     <<"t", " ", "[", "i", "d", "i", "d", "I", "D", "I", "D", "]", ".", "M", "4", "A">>,
     <<"T", " ", "[", "I", "D", "I", "D", "I", "D", "I", "D", "]", " ", "-", " ", "0", "1", ".", "m", "4", "a">>,
     <<"x", ".", "m", "4", "a">>,
     <<"X", " ", "(", "2", ")", ".", "m", "4", "a">>,
     <<"T", " ", "[", "I", "D", "]", ".", "m", "4", "a">>}

Mtimes == {1, 2}

Directories ==
    UNION {[S -> [mtime : Mtimes, is_file : BOOLEAN]] :
              S \in {T \in SUBSET FileNames : Cardinality(T) <= MaxFiles}}

ddInit ==
    /\ dd_pc = "scan"
    /\ dd_dir \in Directories
    /\ dd_before = dd_dir
    /\ dd_key_to_files = <<>>

InitDedupe == ddInit /\ slIdle /\ psIdle /\ chIdle /\ exIdle /\ tcIdle /\ nzIdle
              /\ mnIdle /\ rcIdle /\ vpIdle
NextDedupe == Scan \/ DedupeKey \/ ReturnDedupe
SpecDedupe == InitDedupe /\ [][NextDedupe]_vars

\* the files the run found
FilesBefore == {n \in DOMAIN dd_before : dd_before[n].is_file}

\* the files that had the key of file n
SameKey(n) == {m \in FilesBefore : build_key(m) = build_key(n)}

\* C23: after a dedupe run in which every deletion succeeds, for every key
\* exactly one of the files that had the key remains and it has the newest
\* modification time among them; every other file of the key is deleted, and
\* a file whose key no other file shares is never deleted.
C23_KeepNewest ==
    /\ dd_pc = "done" =>
          \A n \in FilesBefore :
             /\ Cardinality(SameKey(n) \cap DOMAIN dd_dir) = 1
             /\ \A kept \in SameKey(n) \cap DOMAIN dd_dir :
                   \A m \in SameKey(n) : dd_before[m].mtime <= dd_before[kept].mtime
    /\ \A n \in FilesBefore : SameKey(n) = {n} => n \in DOMAIN dd_dir
    /\ \A n \in DOMAIN dd_dir : dd_dir[n] = dd_before[n]

\* C23 witness: of three files, two shared a key under different names and
\* modification times; the older one is gone, the newer one and the file with
\* a key of its own remain.
C23_Witness ==
    /\ dd_pc = "done"
    /\ Cardinality(FilesBefore) = 3
    /\ Cardinality(DOMAIN dd_dir) = 2
    /\ \E n, m \in FilesBefore :
          /\ n # m /\ build_key(n) = build_key(m)
          /\ dd_before[n].mtime < dd_before[m].mtime
          /\ n \notin DOMAIN dd_dir /\ m \in DOMAIN dd_dir
    /\ \E n \in FilesBefore : SameKey(n) = {n} /\ n \in DOMAIN dd_dir

-----------------------------------------------------------------------------
(* C24, under SpecExtract *)

\* C24: every path in the list returned by ffmpeg_split names an output file
\* that exists when the call returns, for cuts that succeeded on the copy and
\* for cuts that succeeded on the re-encode: no path is reported for a cut
\* for which no output file was produced.
C24_ReportedPathsExist ==
    pc = "done" => \A j \in 1..Len(made) : made[j] \in DOMAIN fs

-----------------------------------------------------------------------------
(* Specification SpecRace: two concurrent one-cut runs of ffmpeg_split in  *)
(* a directory that holds any subset of PreExisting.                       *)

rcInit ==
    /\ rc_pc = [p \in Runs |-> "choose"]
    /\ rc_fs \in {[q \in S |-> 1] : S \in SUBSET PreExisting}
    /\ rc_cuts \in [Runs -> CutVocab]
    /\ rc_path = [p \in Runs |-> <<>>]
    /\ rc_log = <<>>

InitRace == rcInit /\ slIdle /\ psIdle /\ chIdle /\ exIdle /\ tcIdle /\ nzIdle
            /\ mnIdle /\ ddIdle /\ vpIdle
NextRace == \E p \in Runs : RaceChoosePath(p) \/ RaceRunCopy(p) \/ RaceRunReencode(p)
SpecRace == InitRace /\ [][NextRace]_vars

HasInvoked(p) == \E k \in 1..Len(rc_log) : rc_log[k].run = p

\* C25: two concurrent runs with the same base name and the same label can
\* both pass the existence check before either writes: whenever both have
\* chosen their path and neither has invoked the tool yet, they hold the same
\* candidate path, which both then write.
C25_SamePathChosen ==
    \A p, q \in Runs :
        (/\ p # q
         /\ rc_cuts[p][3] = rc_cuts[q][3]
         /\ rc_pc[p] = "copy" /\ rc_pc[q] = "copy"
         /\ ~HasInvoked(p) /\ ~HasInvoked(q))
            => rc_path[p] = rc_path[q]

\* C25 witness: both runs passed the check for the same path before either
\* wrote it; one run wrote the file and then the other run wrote the same
\* path, over the first run's output.
C25_Witness ==
    \E i, j \in 1..Len(rc_log) :
        /\ i < j
        /\ rc_log[i].run # rc_log[j].run
        /\ rc_log[i].path = rc_log[j].path
        /\ ~rc_log[i].existed /\ rc_log[i].form = "copy"
        /\ rc_log[i].rc = 0 /\ rc_log[i].data
        /\ rc_log[j].existed /\ rc_log[j].form = "copy" /\ rc_log[j].wrote

-----------------------------------------------------------------------------
(* C26, under SpecParse *)

\* the spec made of the same tokens in the order o
Permuted(tokens, o) == Join([i \in 1..Len(tokens) |-> tokens[o[i]]])

\* C26: in markers mode the result of parse_splits does not depend on the
\* order of the tokens: every permutation of the same marker tokens yields
\* the same cut list, whose starts are in ascending order and in which each
\* cut's end equals the start of the next cut.
C26_OrderIndependent ==
    (ps_pc = "done" /\ ~HasDash(psTokens)) =>
        /\ \A o \in Orders(1..Len(psTokens)) :
              parse_splits(Permuted(psTokens, o), ps_duration) = ps_result
        /\ ps_result.ok =>
              \A i \in 1..(Len(psCuts) - 1) :
                  /\ Le(psCuts[i][1], psCuts[i + 1][1])
                  /\ psCuts[i][2] = psCuts[i + 1][1]

\* C26 witness: three distinct markers given in descending order have been
\* parsed into contiguous cuts in ascending order.
C26_Witness ==
    /\ ps_pc = "done" /\ ps_result.ok /\ ~HasDash(psTokens)
    /\ Len(psTokens) = 3
    /\ Gt(parse_timecode(psTokens[1]), parse_timecode(psTokens[2]))
    /\ Gt(parse_timecode(psTokens[2]), parse_timecode(psTokens[3]))
    /\ Len(psCuts) >= 2
    /\ psCuts[1][1] = parse_timecode(psTokens[3])
    /\ psCuts[1][2] = psCuts[2][1]

-----------------------------------------------------------------------------
(* C27, under SpecChapters *)

\* the title the claim gives chapter i: its own, or "part" and the number
ClaimedTitle(i) ==
    IF chChapters[i].title = NoTitle \/ chChapters[i].title.s = <<>>
    THEN <<"p", "a", "r", "t">> \o TwoDigits(i)
    ELSE chChapters[i].title.s

\* C27: the label of the cut made from the chapter at 1-based position i of
\* the input list is i on two digits, " - ", and the sanitized title, the
\* title being "part" plus i on two digits when the chapter has none; i is the
\* position in the input list, not among the surviving cuts.
C27_ChapterLabel ==
    ch_pc = "done" =>
        /\ Len(ch_result) = Cardinality(Converted)
        /\ \A k \in 1..Cardinality(Converted) :
              LET i == Nth(Converted, k)
              IN  ch_result[k][3] =
                     TwoDigits(i) \o <<" ", "-", " ">> \o safe_label(ClaimedTitle(i))

\* C27 witness: the first of two chapters was dropped and the cut of the
\* second, which has no title, is labelled "02 - part02".
C27_Witness ==
    /\ ch_pc = "done"
    /\ Len(chChapters) = 2 /\ Len(ch_result) = 1
    /\ chChapters[2].title = NoTitle
    /\ ch_result[1][3] =
          <<"0", "2", " ", "-", " ", "p", "a", "r", "t", "0", "2">>

-----------------------------------------------------------------------------
(* Specification SpecWindow: one sequential run of ffmpeg_split in an      *)
(* empty directory over every list of at most MaxCuts cuts of one label    *)
(* whose end is after, at, or before the start.                            *)

WindowCuts ==
    {<<Num(0), Num(2), <<"a">>>>, <<Num(1), Num(1), <<"a">>>>,
     <<Num(2), Num(1), <<"a">>>>}

wnInit ==
    /\ pc = "choose"
    /\ cuts \in SeqsUpTo(WindowCuts, MaxCuts)
    /\ fs = <<>>
    /\ idx = 1
    /\ out_path = <<>>
    /\ pre = {}
    /\ made = <<>>
    /\ calls = <<>>

InitWindow == wnInit /\ slIdle /\ psIdle /\ chIdle /\ tcIdle /\ nzIdle /\ progIdle
NextWindow == ChoosePath \/ RunCopy \/ RunReencode \/ Return
SpecWindow == InitWindow /\ [][NextWindow]_vars

\* end - start of cut k, in hundredths of a second
Span(k) == (cuts[k][2].v - cuts[k][1].v) * 100

\* C28: for each cut the copy invocation and the re-encode invocation use the
\* same start, the same duration and the same output path; the duration is
\* max(0.01, end - start): end - start when that is at least 0.01, and never
\* below 0.01, also for a cut whose end equals its start.
C28_SameWindow ==
    /\ \A i \in 1..Len(calls) :
          LET c == calls[i]
          IN  /\ c.start = cuts[c.cut][1]
              /\ c.t >= MinDuration
              /\ Span(c.cut) >= MinDuration => c.t = Span(c.cut)
              /\ Span(c.cut) < MinDuration => c.t = MinDuration
    /\ \A k \in 1..Len(cuts) :
          LET cs == CallsOf(k)
          IN  Len(cs) = 2 =>
                 /\ cs[1].form = "copy" /\ cs[2].form = "reencode"
                 /\ cs[2].start = cs[1].start
                 /\ cs[2].t = cs[1].t
                 /\ cs[2].path = cs[1].path

\* C28 witness: a cut whose end equals its start was copied and re-encoded,
\* both times for 0.01 s.
C28_Witness ==
    \E k \in 1..Len(cuts) :
        /\ cuts[k][1] = cuts[k][2]
        /\ Len(CallsOf(k)) = 2
        /\ CallsOf(k)[1].t = MinDuration /\ CallsOf(k)[2].t = MinDuration

-----------------------------------------------------------------------------
(* C29, under SpecExtract *)

\* C29: the list returned by one sequential run of ffmpeg_split never holds
\* the same output path twice, for any cut list (also with several cuts of
\* the same label) and any pattern of copy and re-encode outcomes.
C29_NoDuplicatePaths ==
    \A i, j \in 1..Len(made) : i < j => made[i] # made[j]

-----------------------------------------------------------------------------
(* main of ps_best_downloader.py.  vp_args is [accept |-> the answer to    *)
(* the warning is "yes", creds |-> a username and a password are given,    *)
(* pre_cmd, post_cmd, vpn_service |-> the option is given, keep_vpn |->    *)
(* the flag, urls |-> the URL list is not empty].  vp_log records the      *)
(* commands run and the VPN operations; vp_exit is the exit status, -1     *)
(* while the process runs.                                                 *)

Running == -1

\* sys.exit(code) outside the try statement: the process ends at once
ExitNow(code) == vp_pc' = "exited" /\ vp_exit' = code

\* lines 287-290: the legal warning
VpConfirm ==
    /\ vp_pc = "confirm"
    /\ IF vp_args.accept THEN vp_pc' = "creds" /\ vp_exit' = vp_exit
       ELSE ExitNow(0)
    /\ UNCHANGED <<vp_started, vp_log>>
    /\ UNCHANGED <<vp_args, slVars, psVars, chVars, exVars, tcVars, nzVars,
                   mnVars, ddVars, rcVars>>

\* lines 293-304: the credentials
VpCredentials ==
    /\ vp_pc = "creds"
    /\ IF vp_args.creds THEN vp_pc' = "pre_cmd" /\ vp_exit' = vp_exit
       ELSE ExitNow(1)
    /\ UNCHANGED <<vp_started, vp_log>>
    /\ UNCHANGED <<vp_args, slVars, psVars, chVars, exVars, tcVars, nzVars,
                   mnVars, ddVars, rcVars>>

\* lines 307-311: --pre-cmd, whose failure ends the run with its status
VpPreCmd ==
    /\ vp_pc = "pre_cmd"
    /\ IF vp_args.pre_cmd
       THEN /\ vp_log' = Append(vp_log, "pre_cmd")
            /\ \E rc \in ExitCodes :
                  IF rc # 0 THEN ExitNow(rc)
                  ELSE vp_pc' = "connect" /\ vp_exit' = vp_exit
       ELSE vp_log' = vp_log /\ vp_pc' = "connect" /\ vp_exit' = vp_exit
    /\ UNCHANGED vp_started
    /\ UNCHANGED <<vp_args, slVars, psVars, chVars, exVars, tcVars, nzVars,
                   mnVars, ddVars, rcVars>>

\* lines 314-319: macos_vpn_connect, which may fail to reach Connected
VpConnect ==
    /\ vp_pc = "connect"
    /\ IF vp_args.vpn_service
       THEN /\ vp_log' = Append(vp_log, "vpn_connect")
            /\ \E ok \in BOOLEAN :
                  IF ok THEN vp_started' = TRUE /\ vp_pc' = "urls" /\ vp_exit' = vp_exit
                  ELSE vp_started' = FALSE /\ ExitNow(4)
       ELSE /\ vp_log' = vp_log /\ vp_started' = FALSE
            /\ vp_pc' = "urls" /\ vp_exit' = vp_exit
    /\ UNCHANGED <<vp_args, slVars, psVars, chVars, exVars, tcVars, nzVars,
                   mnVars, ddVars, rcVars>>

\* lines 322-336: the URL list, sys.exit(1) when it is empty
VpBuildUrls ==
    /\ vp_pc = "urls"
    /\ IF vp_args.urls THEN vp_pc' = "try" /\ vp_exit' = vp_exit
       ELSE ExitNow(1)
    /\ UNCHANGED <<vp_started, vp_log>>
    /\ UNCHANGED <<vp_args, slVars, psVars, chVars, exVars, tcVars, nzVars,
                   mnVars, ddVars, rcVars>>

\* lines 338-364: the try statement: authentication and the URL loop; the
\* status the process will end with once the finally clause has run
VpTry ==
    /\ vp_pc = "try"
    /\ \E outcome \in {"auth_failed", "completed", "interrupted", "error"} :
          vp_exit' = CASE outcome = "auth_failed" -> 2
                       [] outcome = "error" -> 3
                       [] OTHER -> 0
    /\ vp_pc' = "finally"
    /\ UNCHANGED <<vp_started, vp_log>>
    /\ UNCHANGED <<vp_args, slVars, psVars, chVars, exVars, tcVars, nzVars,
                   mnVars, ddVars, rcVars>>

\* lines 365-370: the finally clause, then the process ends
VpFinally ==
    /\ vp_pc = "finally"
    /\ vp_log' = vp_log
                 \o (IF vp_args.post_cmd THEN <<"post_cmd">> ELSE <<>>)
                 \o (IF vp_args.vpn_service /\ vp_started /\ ~vp_args.keep_vpn
                     THEN <<"vpn_disconnect">> ELSE <<>>)
    /\ vp_pc' = "exited"
    /\ UNCHANGED <<vp_started, vp_exit>>
    /\ UNCHANGED <<vp_args, slVars, psVars, chVars, exVars, tcVars, nzVars,
                   mnVars, ddVars, rcVars>>

-----------------------------------------------------------------------------
(* Specification SpecVpn: main of ps_best_downloader for every setting of  *)
(* the options and every outcome of the commands it runs.                  *)

vpInit ==
    /\ vp_pc = "confirm"
    /\ vp_args \in [accept : BOOLEAN, creds : BOOLEAN, pre_cmd : BOOLEAN,
                    post_cmd : BOOLEAN, vpn_service : BOOLEAN,
                    keep_vpn : BOOLEAN, urls : BOOLEAN]
    /\ vp_started = FALSE
    /\ vp_log = <<>>
    /\ vp_exit = Running

InitVpn == vpInit /\ slIdle /\ psIdle /\ chIdle /\ exIdle /\ tcIdle /\ nzIdle
           /\ mnIdle /\ ddIdle /\ rcIdle
NextVpn ==
    \/ VpConfirm \/ VpCredentials \/ VpPreCmd \/ VpConnect \/ VpBuildUrls
    \/ VpTry \/ VpFinally
SpecVpn == InitVpn /\ [][NextVpn]_vars

Ran(ev) == \E k \in 1..Len(vp_log) : vp_log[k] = ev

\* C30: once the VPN has been connected by this run and --keep-vpn is not
\* set, the VPN disconnect (and the --post-cmd, when given) has been executed
\* when the process exits, on every exit path that follows the connect: an
\* empty URL list, an authentication failure, a user interrupt, an unexpected
\* error, and normal completion.
C30_DisconnectOnExit ==
    (vp_pc = "exited" /\ vp_started /\ ~vp_args.keep_vpn) =>
        /\ Ran("vpn_disconnect")
        /\ vp_args.post_cmd => Ran("post_cmd")

=============================================================================
